---- MODULE Spec2Model ----
(***************************************************************************)
(* nvvk::GBuffer (src/nvvk/gbuffers.cpp): the manager of a set of color    *)
(* images, optional MSAA shadow images, an optional depth image, the UI    *)
(* views and the UI descriptor sets.                                       *)
(*                                                                         *)
(* Vectors are sequences, so the C++ index i is the index i + 1 here.      *)
(* Every call the object makes on its collaborators (device, allocator,    *)
(* command buffer) is appended to `calls`, which holds the calls of the    *)
(* last operation in the order they were made.                             *)
(*                                                                         *)
(* m_info, m_size, m_res and m_descLayout are the members of the instance  *)
(* the operations are called on, `other` is the second instance that the   *)
(* move constructor and the move assignment operator take.                 *)
(***************************************************************************)
EXTENDS Integers, Sequences, FiniteSets, TLC

VARIABLES m_info, m_size, m_res, m_descLayout, other, calls, result, lastCall, live, gen,
          fault

vars == <<m_info, m_size, m_res, m_descLayout, other, calls, result, lastCall, live, gen,
          fault>>

(***************************************************************************)
(* Bounds of the model                                                     *)
(***************************************************************************)
\* largest number of color formats given to init
MaxColors == 2
\* number of generations of handles the device hands out
MaxGen == 3

(***************************************************************************)
(* Values                                                                  *)
(***************************************************************************)
VK_SAMPLE_COUNT_1_BIT == 1
SampleCounts == {VK_SAMPLE_COUNT_1_BIT, 4 * VK_SAMPLE_COUNT_1_BIT}

VK_SUCCESS == "VK_SUCCESS"
ErrorCodes == <<"VK_ERROR_OUT_OF_DEVICE_MEMORY", "VK_ERROR_OUT_OF_HOST_MEMORY">>

VK_FORMAT_UNDEFINED == "VK_FORMAT_UNDEFINED"
ColorFormatValues == <<"VK_FORMAT_R8G8B8A8_UNORM", "VK_FORMAT_R32G32B32A32_SFLOAT">>
DepthFormatValues == {VK_FORMAT_UNDEFINED, "VK_FORMAT_D32_SFLOAT"}

\* A handle is <<generation, kind, index>>; the null handle is the one of
\* generation 0.  The objects of a rebuild carry its generation, which differs
\* from the generation of the rebuild before it and from the generation of
\* every object that is live, so that the handles of the new bundle differ
\* from the handles of the bundle it replaces and from every handle in use.
VK_NULL_HANDLE == <<0, "null", 0>>
Handle(g, kind, i) == <<g, kind, i>>
FreeGens(g) == {x \in 1..MaxGen : x # g /\ \A h \in live : h[1] # x}
NextGen(g) == CHOOSE x \in FreeGens(g) : \A y \in FreeGens(g) : x <= y

TheAllocator == <<0, "allocator", 1>>
TheSampler == <<0, "sampler", 1>>
ThePool == <<0, "descriptorPool", 1>>

Extent(w, h) == [width |-> w, height |-> h]
Extents == {Extent(0, 0), Extent(0, 1), Extent(2, 1)}

\* A value-initialized VkDescriptorImageInfo, nvvk::Image, Resources and
\* GBufferInitInfo
NullDescriptor ==
    [sampler |-> VK_NULL_HANDLE, imageView |-> VK_NULL_HANDLE, imageLayout |-> "UNDEFINED"]
NullImage ==
    [image |-> VK_NULL_HANDLE, format |-> VK_FORMAT_UNDEFINED, extent |-> Extent(0, 0),
     descriptor |-> NullDescriptor]
EmptyResources ==
    [gBufferColor |-> <<>>, gBufferColorMSAA |-> <<>>, gBufferDepth |-> NullImage,
     uiImageViews |-> <<>>, uiDescriptorSets |-> <<>>]
EmptyInfo ==
    [allocator |-> VK_NULL_HANDLE, colorFormats |-> <<>>, depthFormat |-> VK_FORMAT_UNDEFINED,
     sampleCount |-> VK_SAMPLE_COUNT_1_BIT, imageSampler |-> VK_NULL_HANDLE,
     descriptorPool |-> VK_NULL_HANDLE]

\* The color-format lists given to init: 1..MaxColors formats (the list is
\* non-empty after init), the two format values alternating.
ColorFormatLists ==
    {[i \in 1..n |-> ColorFormatValues[((i + 1) % 2) + 1]] : n \in 1..MaxColors}

\* The creation infos given to init
CreateInfos ==
    [allocator : {VK_NULL_HANDLE, TheAllocator},
     colorFormats : ColorFormatLists,
     depthFormat : DepthFormatValues,
     sampleCount : SampleCounts,
     imageSampler : {TheSampler},
     descriptorPool : {VK_NULL_HANDLE, ThePool}]

\* The resize to one element more than asked for
Resize_OneMore(v, n, fill) == [i \in 1..(n + 1) |-> IF i <= Len(v) THEN v[i] ELSE fill]

\* std::vector::resize(n) on a vector that teardown left empty or that is shorter
Resize(v, n, fill) == [i \in 1..n |-> IF i <= Len(v) THEN v[i] ELSE fill]

Range(s) == {s[i] : i \in 1..Len(s)}

(***************************************************************************)
(* The device's answers.  A rebuild makes its fallible calls in sequence;  *)
(* failAt is the number of the first call that fails (0: none fails), and  *)
(* every call from that one on fails, neighbouring calls with different    *)
(* result codes.                                                           *)
(***************************************************************************)
ErrorCode(k) == ErrorCodes[(k % 2) + 1]

DeviceResult(failAt, k) ==
    IF failAt = 0 \/ k < failAt THEN VK_SUCCESS ELSE ErrorCode(k)

\* The number of fallible calls of a rebuild in which every call succeeds
NumCalls(info, sampleCount) ==
    Len(info.colorFormats) * (IF sampleCount > VK_SAMPLE_COUNT_1_BIT THEN 3 ELSE 2)
    + (IF info.depthFormat # VK_FORMAT_UNDEFINED THEN 1 ELSE 0)
    + (IF info.descriptorPool # VK_NULL_HANDLE THEN 2 ELSE 0)

(***************************************************************************)
(* Usage flags of the images                                               *)
(***************************************************************************)
ColorUsage == {"COLOR_ATTACHMENT", "SAMPLED", "TRANSFER_SRC", "TRANSFER_DST", "STORAGE"}
MsaaUsage == {"COLOR_ATTACHMENT", "TRANSIENT_ATTACHMENT", "TRANSFER_DST"}
DepthUsage == {"DEPTH_STENCIL_ATTACHMENT", "SAMPLED", "TRANSFER_SRC", "TRANSFER_DST"}

(***************************************************************************)
(* initResources.  The working state `st` of a rebuild holds the fields    *)
(* the function reads (info, size), the ones it writes (res, descLayout),  *)
(* the calls made so far, the device's live objects, the number k of       *)
(* fallible calls made and rc, the result of the last one.                 *)
(***************************************************************************)
\* The check that lets every result but one error code pass
Failed_OnlyDeviceMemory(rc) == rc = "VK_ERROR_OUT_OF_DEVICE_MEMORY"

\* NVVK_FAIL_RETURN: the enclosing function returns the result when it is
\* not VK_SUCCESS
Failed(rc) == rc # VK_SUCCESS

ImageKind == [color |-> "colorImage", msaa |-> "msaaImage", depth |-> "depthImage"]
ViewKind == [color |-> "colorView", msaa |-> "msaaView", depth |-> "depthView"]

\* m_info.allocator->createImage(out, info, viewInfo): one fallible call that
\* on success fills `out` with a new image and its view, and on failure
\* leaves `out` as it was.  The result is left in st.out and st.rc.
CreateImage(st, kind, c, old, info, viewInfo) ==
    LET k == st.k + 1
        r == DeviceResult(st.failAt, k)
        img == IF r = VK_SUCCESS
               THEN [image |-> Handle(st.gen, ImageKind[kind], c),
                     format |-> info.format,
                     extent |-> info.extent,
                     descriptor |-> [old.descriptor EXCEPT
                                       !.imageView = Handle(st.gen, ViewKind[kind], c)]]
               ELSE old
        ev == [op |-> "createImage", target |-> kind, index |-> c, info |-> info,
               viewInfo |-> viewInfo, result |-> r, image |-> img]
    IN [st EXCEPT !.k = k, !.rc = r, !.out = img,
                  !.calls = Append(@, ev),
                  !.live = IF r = VK_SUCCESS
                           THEN @ \cup {img.image, img.descriptor.imageView}
                           ELSE @]

\* vkCreateImageView(device, &viewInfo, nullptr, &m_res.uiImageViews[c])
CreateUiImageView(st, c, viewInfo) ==
    LET k == st.k + 1
        r == DeviceResult(st.failAt, k)
        view == IF r = VK_SUCCESS THEN Handle(st.gen, "uiView", c) ELSE st.res.uiImageViews[c]
        ev == [op |-> "vkCreateImageView", index |-> c, viewInfo |-> viewInfo,
               result |-> r, view |-> view]
    IN [st EXCEPT !.k = k, !.rc = r,
                  !.res.uiImageViews[c] = view,
                  !.calls = Append(@, ev),
                  !.live = IF r = VK_SUCCESS THEN @ \cup {view} ELSE @]

\* The multisampling test with >= in place of >
IsMsaa_AtLeastOne(info) == info.sampleCount >= VK_SAMPLE_COUNT_1_BIT

IsMsaa(info) == info.sampleCount > VK_SAMPLE_COUNT_1_BIT

\* One iteration of the loop over the color formats: the color image and its
\* view, the UI view, the sampler, the MSAA shadow image.
ColorIteration(st, c) ==
    LET info == [format |-> st.info.colorFormats[c], extent |-> st.size,
                 samples |-> VK_SAMPLE_COUNT_1_BIT, usage |-> ColorUsage]
        viewInfo == [format |-> st.info.colorFormats[c], aspectMask |-> "COLOR",
                     image |-> VK_NULL_HANDLE, a |-> "IDENTITY"]
        s1 == CreateImage(st, "color", c, st.res.gBufferColor[c], info, viewInfo)
        s1r == [s1 EXCEPT !.res.gBufferColor[c] = s1.out]
    IN IF Failed(s1.rc) THEN s1r
       ELSE
       LET uiViewInfo == [viewInfo EXCEPT !.image = s1r.res.gBufferColor[c].image, !.a = "ONE"]
           s2 == CreateUiImageView(s1r, c, uiViewInfo)
       IN IF Failed(s2.rc) THEN s2
          ELSE
          LET s3 == [s2 EXCEPT !.res.gBufferColor[c].descriptor.sampler = st.info.imageSampler]
          IN IF ~IsMsaa(st.info) THEN s3
             ELSE
             LET msaaInfo == [info EXCEPT !.samples = st.info.sampleCount, !.usage = MsaaUsage]
                 s4 == CreateImage(s3, "msaa", c, s3.res.gBufferColorMSAA[c], msaaInfo, uiViewInfo)
             IN [s4 EXCEPT !.res.gBufferColorMSAA[c] = s4.out]

RECURSIVE ColorLoop(_, _)
ColorLoop(st, c) ==
    IF c > Len(st.info.colorFormats) THEN st
    ELSE LET s == ColorIteration(st, c)
         IN IF Failed(s.rc) THEN s ELSE ColorLoop(s, c + 1)

\* The depth buffer created single-sampled, like the color images
DepthCreateInfo_SingleSample(st) ==
    [format |-> st.info.depthFormat, extent |-> st.size,
     samples |-> VK_SAMPLE_COUNT_1_BIT, usage |-> DepthUsage]

\* The VkImageCreateInfo of the depth buffer
DepthCreateInfo(st) ==
    [format |-> st.info.depthFormat, extent |-> st.size,
     samples |-> st.info.sampleCount, usage |-> DepthUsage]

\* The depth image and its view
DepthStep(st) ==
    IF st.info.depthFormat = VK_FORMAT_UNDEFINED THEN st
    ELSE
    LET createInfo == DepthCreateInfo(st)
        viewInfo == [format |-> st.info.depthFormat, aspectMask |-> "DEPTH",
                     image |-> VK_NULL_HANDLE, a |-> "IDENTITY"]
        s == CreateImage(st, "depth", 1, st.res.gBufferDepth, createInfo, viewInfo)
    IN [s EXCEPT !.res.gBufferDepth = s.out]

(***************************************************************************)
(* Clear all images and change layout                                      *)
(***************************************************************************)
\* nvvk::makeImageMemoryBarrier({.image, .oldLayout, .newLayout, .subresourceRange})
makeImageMemoryBarrier(image, oldLayout, newLayout, range) ==
    [image |-> image, oldLayout |-> oldLayout, newLayout |-> newLayout,
     subresourceRange |-> range]

\* The barriers the first loop pushes from color index c on
RECURSIVE ClearBarriers(_, _)
ClearBarriers(st, c) ==
    IF c > Len(st.info.colorFormats) THEN <<>>
    ELSE <<makeImageMemoryBarrier(st.res.gBufferColor[c].image, "UNDEFINED",
                                  "TRANSFER_DST_OPTIMAL", "default")>>
         \o (IF IsMsaa(st.info)
             THEN <<makeImageMemoryBarrier(st.res.gBufferColorMSAA[c].image, "UNDEFINED",
                                           "TRANSFER_DST_OPTIMAL", "default")>>
             ELSE <<>>)
         \o ClearBarriers(st, c + 1)

\* The first barrier without the depth image
DepthClearBarrier_Omitted(st) == <<>>

DepthClearBarrier(st) ==
    IF st.res.gBufferDepth.image # VK_NULL_HANDLE
    THEN <<makeImageMemoryBarrier(st.res.gBufferDepth.image, "UNDEFINED",
                                  "TRANSFER_DST_OPTIMAL", "range_depth")>>
    ELSE <<>>

\* The clears recorded from color index c on
RECURSIVE ColorClears(_, _)
ColorClears(st, c) ==
    IF c > Len(st.info.colorFormats) THEN <<>>
    ELSE <<[op |-> "vkCmdClearColorImage", image |-> st.res.gBufferColor[c].image,
            imageLayout |-> "TRANSFER_DST_OPTIMAL", value |-> <<0, 0, 0, 0>>]>>
         \o (IF IsMsaa(st.info)
             THEN <<[op |-> "vkCmdClearColorImage", image |-> st.res.gBufferColorMSAA[c].image,
                     imageLayout |-> "TRANSFER_DST_OPTIMAL", value |-> <<0, 0, 0, 0>>]>>
             ELSE <<>>)
         \o ColorClears(st, c + 1)

DepthClear(st) ==
    IF st.res.gBufferDepth.image # VK_NULL_HANDLE
    THEN <<[op |-> "vkCmdClearDepthStencilImage", image |-> st.res.gBufferDepth.image,
            imageLayout |-> "TRANSFER_DST_OPTIMAL", value |-> <<1, 0>>]>>
    ELSE <<>>

\* The layouts of the final transition
ColorFinalLayout == "SHADER_READ_ONLY_OPTIMAL"
MsaaFinalLayout == "COLOR_ATTACHMENT_OPTIMAL"
DepthFinalLayout == "DEPTH_STENCIL_ATTACHMENT_OPTIMAL"

\* The barriers the last loop pushes from color index c on
RECURSIVE FinalBarriers(_, _)
FinalBarriers(st, c) ==
    IF c > Len(st.info.colorFormats) THEN <<>>
    ELSE <<makeImageMemoryBarrier(st.res.gBufferColor[c].image, "TRANSFER_DST_OPTIMAL",
                                  ColorFinalLayout, "default")>>
         \o (IF IsMsaa(st.info)
             THEN <<makeImageMemoryBarrier(st.res.gBufferColorMSAA[c].image,
                                           "TRANSFER_DST_OPTIMAL", MsaaFinalLayout, "default")>>
             ELSE <<>>)
         \o FinalBarriers(st, c + 1)

\* The depth image taken to the layout of the color images
DepthFinalBarrier_ShaderRead(st) ==
    IF st.res.gBufferDepth.image # VK_NULL_HANDLE
    THEN <<makeImageMemoryBarrier(st.res.gBufferDepth.image, "TRANSFER_DST_OPTIMAL",
                                  ColorFinalLayout, "range_depth")>>
    ELSE <<>>

DepthFinalBarrier(st) ==
    IF st.res.gBufferDepth.image # VK_NULL_HANDLE
    THEN <<makeImageMemoryBarrier(st.res.gBufferDepth.image, "TRANSFER_DST_OPTIMAL",
                                  DepthFinalLayout, "range_depth")>>
    ELSE <<>>

\* The descriptor records after the last loop
FinalDescriptors(st) ==
    LET n == Len(st.info.colorFormats)
    IN [st.res EXCEPT
          !.gBufferColor = [c \in 1..n |-> [@[c] EXCEPT !.descriptor.imageLayout = ColorFinalLayout]],
          !.gBufferColorMSAA =
              IF IsMsaa(st.info)
              THEN [c \in 1..n |-> [@[c] EXCEPT !.descriptor.imageLayout = MsaaFinalLayout]]
              ELSE @,
          !.gBufferDepth =
              IF st.res.gBufferDepth.image # VK_NULL_HANDLE
              THEN [@ EXCEPT !.descriptor.imageLayout = DepthFinalLayout]
              ELSE @]

PipelineBarrier(barriers) == [op |-> "vkCmdPipelineBarrier2", barriers |-> barriers]

ClearAndTransition(st) ==
    [st EXCEPT !.calls = @ \o <<PipelineBarrier(ClearBarriers(st, 1) \o DepthClearBarrier(st))>>
                           \o ColorClears(st, 1) \o DepthClear(st)
                           \o <<PipelineBarrier(FinalBarriers(st, 1) \o DepthFinalBarrier(st))>>,
               !.res = FinalDescriptors(st)]

(***************************************************************************)
(* Descriptor Set for ImGUI                                                *)
(***************************************************************************)
\* The descriptor set written with the primary view of the color image
WriteDescriptorSet_PrimaryView(st, d) ==
    [dstSet |-> st.res.uiDescriptorSets[d],
     sampler |-> st.info.imageSampler,
     imageView |-> st.res.gBufferColor[d].descriptor.imageView,
     imageLayout |-> ColorFinalLayout]

\* descImages[d] and writeDesc[d]: what descriptor set d is written with
WriteDescriptorSet(st, d) ==
    [dstSet |-> st.res.uiDescriptorSets[d],
     sampler |-> st.info.imageSampler,
     imageView |-> st.res.uiImageViews[d],
     imageLayout |-> ColorFinalLayout]

DescriptorStep(st) ==
    IF st.info.descriptorPool = VK_NULL_HANDLE THEN st
    ELSE
    LET n == Len(st.info.colorFormats)
        k1 == st.k + 1
        r1 == DeviceResult(st.failAt, k1)
        layout == IF r1 = VK_SUCCESS THEN Handle(st.gen, "descLayout", 1) ELSE st.descLayout
        s1 == [st EXCEPT !.res.uiDescriptorSets = Resize(@, n, VK_NULL_HANDLE),
                         !.k = k1, !.rc = r1, !.descLayout = layout,
                         !.calls = Append(@, [op |-> "vkCreateDescriptorSetLayout",
                                              result |-> r1, layout |-> layout]),
                         !.live = IF r1 = VK_SUCCESS THEN @ \cup {layout} ELSE @]
    IN IF Failed(r1) THEN s1
       ELSE
       LET k2 == k1 + 1
           r2 == DeviceResult(st.failAt, k2)
           sets == [d \in 1..n |-> IF r2 = VK_SUCCESS THEN Handle(st.gen, "descSet", d)
                                   ELSE VK_NULL_HANDLE]
           s2 == [s1 EXCEPT !.res.uiDescriptorSets = sets,
                            !.k = k2, !.rc = r2,
                            !.calls = Append(@, [op |-> "vkAllocateDescriptorSets",
                                                 descriptorPool |-> st.info.descriptorPool,
                                                 descriptorSetCount |-> n,
                                                 setLayouts |-> [d \in 1..n |-> layout],
                                                 result |-> r2, sets |-> sets]),
                            !.live = IF r2 = VK_SUCCESS THEN @ \cup Range(sets) ELSE @]
       IN IF Failed(r2) THEN s2
          ELSE
          LET writeDesc == [d \in 1..n |-> WriteDescriptorSet(s2, d)]
          IN [s2 EXCEPT !.calls = Append(@, [op |-> "vkUpdateDescriptorSets",
                                             writes |-> writeDesc])]

\* VkResult GBuffer::initResources(VkCommandBuffer cmd)
initResources(st) ==
    LET n == Len(st.info.colorFormats)
        s0 == [st EXCEPT !.res.gBufferColor = Resize(@, n, NullImage),
                         !.res.uiImageViews = Resize(@, n, VK_NULL_HANDLE),
                         !.res.gBufferColorMSAA =
                             IF IsMsaa(st.info) THEN Resize(@, n, NullImage) ELSE @]
        s1 == ColorLoop(s0, 1)
    IN IF Failed(s1.rc) THEN s1
       ELSE
       LET s2 == DepthStep(s1)
       IN IF Failed(s2.rc) THEN s2
          ELSE
          LET s3 == DescriptorStep(ClearAndTransition(s2))
          IN IF Failed(s3.rc) THEN s3 ELSE [s3 EXCEPT !.rc = VK_SUCCESS]

(***************************************************************************)
(* deinitResources                                                         *)
(***************************************************************************)
DestroyImage(img) ==
    [op |-> "destroyImage", image |-> img.image, imageView |-> img.descriptor.imageView]
DestroyImageView(view) == [op |-> "vkDestroyImageView", view |-> view]

\* The teardown with neither the test of the allocator nor the test of the
\* depth image
deinitResources_Unguarded(st) ==
    LET freeSets == st.info.descriptorPool # VK_NULL_HANDLE /\ st.res.uiDescriptorSets # <<>>
        images == Range(st.res.gBufferColor) \cup Range(st.res.gBufferColorMSAA)
                  \cup {st.res.gBufferDepth}
        destroyed == (IF freeSets THEN Range(st.res.uiDescriptorSets) \cup {st.descLayout} ELSE {})
                     \cup {i.image : i \in images}
                     \cup {i.descriptor.imageView : i \in images}
                     \cup Range(st.res.uiImageViews)
    IN [st EXCEPT
          !.calls = @ \o (IF freeSets
                          THEN <<[op |-> "vkFreeDescriptorSets",
                                  descriptorPool |-> st.info.descriptorPool,
                                  sets |-> st.res.uiDescriptorSets],
                                 [op |-> "vkDestroyDescriptorSetLayout",
                                  layout |-> st.descLayout]>>
                          ELSE <<>>)
                      \o [c \in 1..Len(st.res.gBufferColor) |-> DestroyImage(st.res.gBufferColor[c])]
                      \o [c \in 1..Len(st.res.gBufferColorMSAA) |->
                            DestroyImage(st.res.gBufferColorMSAA[c])]
                      \o <<DestroyImage(st.res.gBufferDepth)>>
                      \o [c \in 1..Len(st.res.uiImageViews) |->
                            DestroyImageView(st.res.uiImageViews[c])],
          !.res = [gBufferColor |-> <<>>, gBufferColorMSAA |-> <<>>,
                   gBufferDepth |-> NullImage,
                   uiImageViews |-> <<>>,
                   uiDescriptorSets |-> IF freeSets THEN <<>> ELSE @.uiDescriptorSets],
          !.descLayout = IF freeSets THEN VK_NULL_HANDLE ELSE @,
          !.live = @ \ destroyed]

\* void GBuffer::deinitResources(), on the fields info, res, descLayout of st
deinitResources(st) ==
    IF st.info.allocator = VK_NULL_HANDLE THEN st
    ELSE
    LET freeSets == st.info.descriptorPool # VK_NULL_HANDLE /\ st.res.uiDescriptorSets # <<>>
        depth == st.res.gBufferDepth.image # VK_NULL_HANDLE
        images == Range(st.res.gBufferColor) \cup Range(st.res.gBufferColorMSAA)
                  \cup (IF depth THEN {st.res.gBufferDepth} ELSE {})
        destroyed == (IF freeSets THEN Range(st.res.uiDescriptorSets) \cup {st.descLayout} ELSE {})
                     \cup {i.image : i \in images}
                     \cup {i.descriptor.imageView : i \in images}
                     \cup Range(st.res.uiImageViews)
    IN [st EXCEPT
          !.calls = @ \o (IF freeSets
                          THEN <<[op |-> "vkFreeDescriptorSets",
                                  descriptorPool |-> st.info.descriptorPool,
                                  sets |-> st.res.uiDescriptorSets],
                                 [op |-> "vkDestroyDescriptorSetLayout",
                                  layout |-> st.descLayout]>>
                          ELSE <<>>)
                      \o [c \in 1..Len(st.res.gBufferColor) |-> DestroyImage(st.res.gBufferColor[c])]
                      \o [c \in 1..Len(st.res.gBufferColorMSAA) |->
                            DestroyImage(st.res.gBufferColorMSAA[c])]
                      \o (IF depth THEN <<DestroyImage(st.res.gBufferDepth)>> ELSE <<>>)
                      \o [c \in 1..Len(st.res.uiImageViews) |->
                            DestroyImageView(st.res.uiImageViews[c])],
          !.res = [gBufferColor |-> <<>>, gBufferColorMSAA |-> <<>>,
                   gBufferDepth |-> IF depth THEN NullImage ELSE @.gBufferDepth,
                   uiImageViews |-> <<>>,
                   uiDescriptorSets |-> IF freeSets THEN <<>> ELSE @.uiDescriptorSets],
          !.descLayout = IF freeSets THEN VK_NULL_HANDLE ELSE @,
          !.live = @ \ destroyed]

\* An instance that is not *this: its members, and whether it is constructed
\* and not yet destroyed
Instance(info, size, res, descLayout) ==
    [alive |-> TRUE, info |-> info, size |-> size, res |-> res, descLayout |-> descLayout]
NoInstance ==
    [alive |-> FALSE, info |-> EmptyInfo, size |-> Extent(0, 0), res |-> EmptyResources,
     descLayout |-> VK_NULL_HANDLE]

\* The working state of an operation that starts in the current state
Working(failAt) ==
    [info |-> m_info, size |-> m_size, res |-> m_res, descLayout |-> m_descLayout,
     calls |-> <<>>, live |-> live, gen |-> gen, failAt |-> failAt,
     k |-> 0, rc |-> VK_SUCCESS, out |-> NullImage]

(***************************************************************************)
(* The operations                                                          *)
(***************************************************************************)
Init ==
    /\ m_info = EmptyInfo
    /\ m_size = Extent(0, 0)
    /\ m_res = EmptyResources
    /\ m_descLayout = VK_NULL_HANDLE
    /\ other = NoInstance
    /\ calls = <<>>
    /\ result = "none"
    /\ lastCall = [op |-> "GBuffer"]
    /\ live = {}
    /\ gen = 0
    /\ fault = "none"

\* void GBuffer::init(const GBufferInitInfo& createInfo); the assertion
\* stops the program
init(createInfo) ==
    /\ fault = "none"
    /\ lastCall' = [op |-> "init"]
    /\ calls' = <<>>
    /\ result' = "none"
    /\ IF m_info.colorFormats # <<>>
       THEN /\ fault' = "assert"
            /\ UNCHANGED m_info
       ELSE /\ m_info' = createInfo
            /\ UNCHANGED fault
    /\ UNCHANGED <<m_size, m_res, m_descLayout, other, live, gen>>

\* deinit without the reset of the size
deinit_SizeKept ==
    /\ fault = "none"
    /\ LET s == deinitResources(Working(0))
       IN /\ calls' = s.calls
          /\ live' = s.live
    /\ m_res' = EmptyResources
    /\ m_descLayout' = VK_NULL_HANDLE
    /\ m_info' = EmptyInfo
    /\ lastCall' = [op |-> "deinit"]
    /\ result' = "none"
    /\ UNCHANGED <<m_size, other, gen, fault>>

\* void GBuffer::deinit()
deinit ==
    /\ fault = "none"
    /\ LET s == deinitResources(Working(0))
       IN /\ calls' = s.calls
          /\ live' = s.live
    /\ m_res' = EmptyResources
    /\ m_size' = Extent(0, 0)
    /\ m_descLayout' = VK_NULL_HANDLE
    /\ m_info' = EmptyInfo
    /\ lastCall' = [op |-> "deinit"]
    /\ result' = "none"
    /\ UNCHANGED <<other, gen, fault>>

\* The same test with the requested width compared to the stored height
SameAsCurrent_WidthAgainstHeight(newSize, newSampleCount) ==
    /\ newSize.width = m_size.height
    /\ newSize.height = m_size.height
    /\ newSampleCount = m_info.sampleCount

\* The test that update has nothing to do
SameAsCurrent(newSize, newSampleCount) ==
    /\ newSize.width = m_size.width
    /\ newSize.height = m_size.height
    /\ newSampleCount = m_info.sampleCount

\* The rebuild with the teardown before the wait for the device
Rebuild_WaitAfterTeardown(newSize, newSampleCount, failAt) ==
    LET s0 == Working(failAt)
        s1 == deinitResources([s0 EXCEPT !.gen = NextGen(gen)])
        s2 == [s1 EXCEPT !.calls = Append(@, [op |-> "vkDeviceWaitIdle"]),
                         !.size = newSize, !.info.sampleCount = newSampleCount]
    IN initResources(s2)

\* The rebuild that update performs when there is something to do
Rebuild(newSize, newSampleCount, failAt) ==
    LET s0 == Working(failAt)
        s1 == deinitResources([s0 EXCEPT !.calls = <<[op |-> "vkDeviceWaitIdle"]>>,
                                         !.gen = NextGen(gen)])
        s2 == [s1 EXCEPT !.size = newSize, !.info.sampleCount = newSampleCount]
    IN initResources(s2)

\* VkResult GBuffer::update(VkCommandBuffer cmd, VkExtent2D newSize,
\*                          VkSampleCountFlagBits newSampleCount);
\* without an allocator the rebuild dereferences a null pointer, which stops
\* the program
update(newSize, newSampleCount) ==
    /\ fault = "none"
    /\ lastCall' = [op |-> "update", newSize |-> newSize, newSampleCount |-> newSampleCount]
    /\ UNCHANGED other
    /\ IF SameAsCurrent(newSize, newSampleCount)
       THEN /\ result' = VK_SUCCESS
            /\ calls' = <<>>
            /\ UNCHANGED <<m_info, m_size, m_res, m_descLayout, live, gen, fault>>
       ELSE IF m_info.allocator = VK_NULL_HANDLE
       THEN /\ fault' = "null_dereference"
            /\ result' = "none"
            /\ calls' = <<>>
            /\ UNCHANGED <<m_info, m_size, m_res, m_descLayout, live, gen>>
       ELSE /\ \E failAt \in 0..NumCalls(m_info, newSampleCount) :
                 \E s \in {Rebuild(newSize, newSampleCount, failAt)} :
                    /\ m_info' = s.info
                    /\ m_size' = s.size
                    /\ m_res' = s.res
                    /\ m_descLayout' = s.descLayout
                    /\ calls' = s.calls
                    /\ live' = s.live
                    /\ gen' = s.gen
                    /\ result' = s.rc
            /\ UNCHANGED fault

Next ==
    \/ \E createInfo \in CreateInfos : init(createInfo)
    \/ \E newSize \in Extents, newSampleCount \in SampleCounts : update(newSize, newSampleCount)
    \/ deinit

Spec == Init /\ [][Next]_vars

(***************************************************************************)
(* Two instances: the move constructor, the move assignment operator and   *)
(* the destructor.  init, update and deinit are called on *this; the       *)
(* instance `other` comes under them by being moved into *this.            *)
(***************************************************************************)
\* The members of *this
This == Instance(m_info, m_size, m_res, m_descLayout)

\* A newly constructed instance, before the body of its constructor runs
NewInstance == Instance(EmptyInfo, Extent(0, 0), EmptyResources, VK_NULL_HANDLE)

\* assert(m_info.allocator == nullptr && "Missing deinit()")
Deinited(instance) == instance.info.allocator = VK_NULL_HANDLE

\* GBuffer::GBuffer(GBuffer&& other): the instance the program has is the
\* argument; the new instance is *this from here on and swaps its four
\* members with the argument's, which stays as `other`.
MoveConstructor ==
    /\ fault = "none"
    /\ ~other.alive
    /\ lastCall' = [op |-> "GBuffer(GBuffer&&)"]
    /\ calls' = <<>>
    /\ result' = "none"
    /\ LET self == NewInstance
           arg == This
       IN IF ~Deinited(self)
          THEN /\ fault' = "assert"
               /\ UNCHANGED <<m_info, m_size, m_res, m_descLayout, other>>
          ELSE /\ m_res' = arg.res
               /\ m_size' = arg.size
               /\ m_info' = arg.info
               /\ m_descLayout' = arg.descLayout
               /\ other' = Instance(self.info, self.size, self.res, self.descLayout)
               /\ UNCHANGED fault
    /\ UNCHANGED <<live, gen>>

\* GBuffer& GBuffer::operator=(GBuffer&& other), called on the instance `to`
\* with the instance `from` as argument, each of them *this or other
MoveAssign(to, from) ==
    /\ fault = "none"
    /\ ("other" \in {to, from}) => other.alive
    /\ lastCall' = [op |-> "operator=", to |-> to, from |-> from]
    /\ calls' = <<>>
    /\ result' = "none"
    /\ IF to = from
       THEN UNCHANGED <<m_info, m_size, m_res, m_descLayout, other, fault>>
       ELSE IF ~Deinited(IF to = "this" THEN This ELSE other)
       THEN /\ fault' = "assert"
            /\ UNCHANGED <<m_info, m_size, m_res, m_descLayout, other>>
       ELSE /\ m_res' = other.res
            /\ m_size' = other.size
            /\ m_info' = other.info
            /\ m_descLayout' = other.descLayout
            /\ other' = This
            /\ UNCHANGED fault
    /\ UNCHANGED <<live, gen>>

\* GBuffer::~GBuffer(), of *this or of other.  When *this is destroyed the
\* instance that is left is *this from here on; `left` is the number of
\* instances left.
Destructor(which) ==
    /\ fault = "none"
    /\ which = "other" => other.alive
    /\ calls' = <<>>
    /\ result' = "none"
    /\ IF ~Deinited(IF which = "this" THEN This ELSE other)
       THEN /\ fault' = "assert"
            /\ lastCall' = [op |-> "~GBuffer", which |-> which, left |-> 1]
            /\ UNCHANGED <<m_info, m_size, m_res, m_descLayout, other>>
       ELSE /\ lastCall' = [op |-> "~GBuffer", which |-> which,
                            left |-> IF other.alive THEN 1 ELSE 0]
            /\ IF which = "this" /\ other.alive
               THEN /\ m_res' = other.res
                    /\ m_size' = other.size
                    /\ m_info' = other.info
                    /\ m_descLayout' = other.descLayout
               ELSE UNCHANGED <<m_info, m_size, m_res, m_descLayout>>
            /\ other' = NoInstance
            /\ UNCHANGED fault
    /\ UNCHANGED <<live, gen>>

\* No instance is left: the last one was destroyed
Ended == lastCall.op = "~GBuffer" /\ fault = "none" /\ lastCall.left = 0

\* The configurations of the two-instance specification: with and without
\* an allocator, one color format, a depth format and a descriptor pool
MoveCreateInfos ==
    [allocator : {VK_NULL_HANDLE, TheAllocator},
     colorFormats : {<<ColorFormatValues[1]>>},
     depthFormat : {"VK_FORMAT_D32_SFLOAT"},
     sampleCount : {VK_SAMPLE_COUNT_1_BIT},
     imageSampler : {TheSampler},
     descriptorPool : {ThePool}]

MoveExtents == {Extent(2, 0), Extent(2, 1)}

\* A rebuild takes a generation of handles that is not in use
CanUpdate(newSize, newSampleCount) ==
    \/ SameAsCurrent(newSize, newSampleCount)
    \/ m_info.allocator = VK_NULL_HANDLE
    \/ FreeGens(gen) # {}

NextMove ==
    \/ ~Ended /\ \E createInfo \in MoveCreateInfos : init(createInfo)
    \/ ~Ended /\ \E newSize \in MoveExtents :
                    /\ CanUpdate(newSize, VK_SAMPLE_COUNT_1_BIT)
                    /\ update(newSize, VK_SAMPLE_COUNT_1_BIT)
    \/ ~Ended /\ deinit
    \/ ~Ended /\ MoveConstructor
    \/ ~Ended /\ \E to \in {"this", "other"}, from \in {"this", "other"} : MoveAssign(to, from)
    \/ ~Ended /\ \E which \in {"this", "other"} : Destructor(which)

SpecMove == Init /\ [][NextMove]_vars

(***************************************************************************)
(* One instance, with every list of color formats that init accepts, the   *)
(* empty one included.                                                     *)
(***************************************************************************)
AnyCreateInfos ==
    [allocator : {VK_NULL_HANDLE, TheAllocator},
     colorFormats : {<<>>, <<ColorFormatValues[1]>>},
     depthFormat : DepthFormatValues,
     sampleCount : {VK_SAMPLE_COUNT_1_BIT},
     imageSampler : {TheSampler},
     descriptorPool : {VK_NULL_HANDLE, ThePool}]

NextAny ==
    \/ \E createInfo \in AnyCreateInfos : init(createInfo)
    \/ \E newSize \in MoveExtents :
          /\ CanUpdate(newSize, VK_SAMPLE_COUNT_1_BIT)
          /\ update(newSize, VK_SAMPLE_COUNT_1_BIT)
    \/ deinit

SpecAny == Init /\ [][NextAny]_vars

(***************************************************************************)
(* Accessors                                                               *)
(***************************************************************************)
getDepthImage == m_res.gBufferDepth.image
getDepthImageView == m_res.gBufferDepth.descriptor.imageView

(***************************************************************************)
(* getAspectRatio.  A float is [kind, m, e]: when finite, the value        *)
(* m * 2^(-e) with a significand m of FloatSignificandBits bits (or zero). *)
(* The sizes of the model are below 2^FloatSignificandBits and their       *)
(* quotients are at least 2^(-FloatSignificandBits).                       *)
(***************************************************************************)
\* largest width and largest height given to update under SpecAspect
MaxDim == 4

FloatSignificandBits == 24

RECURSIVE Pow2(_)
Pow2(n) == IF n = 0 THEN 1 ELSE 2 * Pow2(n - 1)

Finite(m, e) == [kind |-> "finite", m |-> m, e |-> e]

\* n / d rounded to the nearest integer, ties to even
RoundDiv(n, d) ==
    LET q == n \div d
        r == n % d
    IN IF 2 * r < d THEN q
       ELSE IF 2 * r > d THEN q + 1
       ELSE IF q % 2 = 0 THEN q ELSE q + 1

\* The number of bits of x
RECURSIVE Bits(_)
Bits(x) == IF x = 0 THEN 0 ELSE 1 + Bits(x \div 2)

\* float(x) of a uint32_t: x rounded to FloatSignificandBits significant bits
ToFloat(x) ==
    LET drop == IF Bits(x) > FloatSignificandBits THEN Bits(x) - FloatSignificandBits ELSE 0
    IN RoundDiv(x, Pow2(drop)) * Pow2(drop)

\* The exponent e and the numerator a * 2^e that put a * 2^e / b at or above
\* 2^(FloatSignificandBits - 1)
RECURSIVE Normalize(_, _, _)
Normalize(num, den, e) ==
    IF num >= Pow2(FloatSignificandBits - 1) * den THEN <<num, e>>
    ELSE Normalize(2 * num, den, e + 1)

\* a / b in single precision, of two floats that hold the integers a and b
FloatDiv(a, b) ==
    IF b = 0 THEN [kind |-> IF a = 0 THEN "nan" ELSE "inf", m |-> 0, e |-> 0]
    ELSE IF a = 0 THEN Finite(0, 0)
    ELSE LET n == Normalize(a, b, 0)
             m == RoundDiv(n[1], b)
         IN IF m = Pow2(FloatSignificandBits) THEN Finite(m \div 2, n[2] - 1)
            ELSE Finite(m, n[2])

\* 1.0f
One == Finite(Pow2(FloatSignificandBits - 1), FloatSignificandBits - 1)

\* The quotient without the test of the height
getAspectRatio_NoZeroTest == FloatDiv(ToFloat(m_size.width), ToFloat(m_size.height))

\* float GBuffer::getAspectRatio() const
getAspectRatio ==
    IF m_size.height = 0 THEN One
    ELSE FloatDiv(ToFloat(m_size.width), ToFloat(m_size.height))

\* A call of getAspectRatio: the value returned is left in result
AspectRatio ==
    /\ fault = "none"
    /\ lastCall' = [op |-> "getAspectRatio"]
    /\ result' = getAspectRatio
    /\ calls' = <<>>
    /\ UNCHANGED <<m_info, m_size, m_res, m_descLayout, other, live, gen, fault>>

\* The configuration and the sizes of the specification of getAspectRatio
AspectCreateInfo ==
    [allocator |-> TheAllocator, colorFormats |-> <<ColorFormatValues[1]>>,
     depthFormat |-> VK_FORMAT_UNDEFINED, sampleCount |-> VK_SAMPLE_COUNT_1_BIT,
     imageSampler |-> TheSampler, descriptorPool |-> VK_NULL_HANDLE]

AspectExtents == {Extent(w, h) : w \in 0..MaxDim, h \in 0..MaxDim}

NextAspect ==
    \/ init(AspectCreateInfo)
    \/ \E newSize \in AspectExtents : update(newSize, VK_SAMPLE_COUNT_1_BIT)
    \/ deinit
    \/ AspectRatio

SpecAspect == Init /\ [][NextAspect]_vars

(***************************************************************************)
(* Vocabulary of the properties                                            *)
(***************************************************************************)
NumColor == Len(m_info.colorFormats)

\* init has been called and deinit has not been called since
Initialized == m_info.colorFormats # <<>>

\* The last operation was an update that ran to its return
UpdateReturned == lastCall.op = "update" /\ fault = "none"

\* The last operation was an update that did not take the no-op path: it
\* waited for the device
Rebuilt == UpdateReturned /\ calls # <<>>

RebuiltOk == Rebuilt /\ result = VK_SUCCESS

CallIndexes(ops) == {j \in 1..Len(calls) : calls[j].op \in ops}

CreateOps == {"createImage", "vkCreateImageView", "vkCreateDescriptorSetLayout",
              "vkAllocateDescriptorSets"}
ImageCreateOps == {"createImage", "vkCreateImageView"}
DestroyOps == {"destroyImage", "vkDestroyImageView", "vkFreeDescriptorSets",
               "vkDestroyDescriptorSetLayout"}
CmdOps == {"vkCmdPipelineBarrier2", "vkCmdClearColorImage", "vkCmdClearDepthStencilImage"}

\* Color image i of the bundle exists, with its view
ColorCreated(i) ==
    /\ m_res.gBufferColor[i].image # VK_NULL_HANDLE
    /\ m_res.gBufferColor[i].descriptor.imageView # VK_NULL_HANDLE
    /\ m_res.gBufferColor[i].image \in live
    /\ m_res.gBufferColor[i].descriptor.imageView \in live

(***************************************************************************)
(* C1: on an initialized instance, an update whose width, height and       *)
(* sample count equal the stored ones returns VK_SUCCESS and does nothing: *)
(* it makes no call at all (no wait, no destroy, no create, no command)    *)
(* and leaves size, configuration, bundle and descriptor-set layout as     *)
(* they were.                                                              *)
(***************************************************************************)
C1_NoopUpdate ==
    [][(/\ fault = "none"
        /\ Initialized
        /\ lastCall'.op = "update"
        /\ lastCall'.newSize = m_size
        /\ lastCall'.newSampleCount = m_info.sampleCount)
       => (/\ result' = VK_SUCCESS
           /\ calls' = <<>>
           /\ fault' = "none"
           /\ UNCHANGED <<m_info, m_size, m_res, m_descLayout, live, gen>>)]_vars

\* A no-op update on an instance whose bundle was built
C1_Witness ==
    /\ UpdateReturned
    /\ calls = <<>>
    /\ result = VK_SUCCESS
    /\ lastCall.newSize = m_size
    /\ m_size.width > 0
    /\ Len(m_res.gBufferColor) = NumColor
    /\ \A i \in 1..NumColor : ColorCreated(i)

(***************************************************************************)
(* C2: after any update that returns VK_SUCCESS on an instance initialized *)
(* with N >= 1 color formats, the bundle holds exactly N created color     *)
(* images and N color views, color image i having the format configured at *)
(* index i.                                                                *)
(***************************************************************************)
ColorTargetsAsConfigured ==
    /\ Len(m_res.gBufferColor) = NumColor
    /\ \A i \in 1..NumColor :
         /\ ColorCreated(i)
         /\ m_res.gBufferColor[i].format = m_info.colorFormats[i]

C2_Claim ==
    (UpdateReturned /\ Initialized /\ result = VK_SUCCESS) => ColorTargetsAsConfigured

(***************************************************************************)
(* C3: after an update that rebuilds the bundle and returns VK_SUCCESS, if *)
(* the new sample count is greater than 1 the bundle holds exactly N MSAA  *)
(* images, MSAA image i with the format and size of color image i; if the  *)
(* new sample count is 1 the bundle holds no MSAA image, whatever it held  *)
(* before the call.                                                        *)
(***************************************************************************)
C3_MsaaShadows ==
    RebuiltOk =>
      IF m_info.sampleCount > VK_SAMPLE_COUNT_1_BIT
      THEN /\ Len(m_res.gBufferColorMSAA) = NumColor
           /\ Len(m_res.gBufferColor) = NumColor
           /\ \A i \in 1..NumColor :
                /\ m_res.gBufferColorMSAA[i].image # VK_NULL_HANDLE
                /\ m_res.gBufferColorMSAA[i].image \in live
                /\ m_res.gBufferColorMSAA[i].format = m_res.gBufferColor[i].format
                /\ m_res.gBufferColorMSAA[i].extent = m_res.gBufferColor[i].extent
           /\ Cardinality({m_res.gBufferColorMSAA[i].image : i \in 1..NumColor}) = NumColor
      ELSE /\ m_res.gBufferColorMSAA = <<>>
           /\ \A h \in live : h[2] # "msaaImage"

\* A rebuild to sample count 1 of a bundle that held two MSAA images
C3_Witness ==
    /\ RebuiltOk
    /\ m_info.sampleCount = VK_SAMPLE_COUNT_1_BIT
    /\ NumColor = 2
    /\ Cardinality({j \in CallIndexes({"destroyImage"}) :
                      calls[j].image[2] = "msaaImage"}) = 2

(***************************************************************************)
(* C4: after an update that rebuilds the bundle and returns VK_SUCCESS, if *)
(* the configured depth format is VK_FORMAT_UNDEFINED no depth image or    *)
(* view was created and the depth accessors return null handles; otherwise *)
(* exactly one depth image and view exist, created at the new size and the *)
(* new sample count.                                                       *)
(***************************************************************************)
DepthCreations == {j \in CallIndexes({"createImage"}) : calls[j].target = "depth"}

C4_DepthTarget ==
    RebuiltOk =>
      IF m_info.depthFormat = VK_FORMAT_UNDEFINED
      THEN /\ DepthCreations = {}
           /\ getDepthImage = VK_NULL_HANDLE
           /\ getDepthImageView = VK_NULL_HANDLE
           /\ \A h \in live : h[2] \notin {"depthImage", "depthView"}
      ELSE /\ Cardinality(DepthCreations) = 1
           /\ \A j \in DepthCreations :
                /\ calls[j].info.format = m_info.depthFormat
                /\ calls[j].info.extent = m_size
                /\ calls[j].info.samples = m_info.sampleCount
                /\ calls[j].image.image = getDepthImage
                /\ calls[j].image.descriptor.imageView = getDepthImageView
           /\ getDepthImage # VK_NULL_HANDLE
           /\ getDepthImageView # VK_NULL_HANDLE
           /\ m_res.gBufferDepth.extent = m_size
           /\ Cardinality({h \in live : h[2] = "depthImage"}) = 1
           /\ Cardinality({h \in live : h[2] = "depthView"}) = 1

\* A rebuild with a depth format, multisampled, replacing a bundle that had
\* a depth image
C4_Witness ==
    /\ RebuiltOk
    /\ m_info.depthFormat # VK_FORMAT_UNDEFINED
    /\ m_info.sampleCount > VK_SAMPLE_COUNT_1_BIT
    /\ m_size.width > 0
    /\ \E j \in CallIndexes({"destroyImage"}) : calls[j].image[2] = "depthImage"

(***************************************************************************)
(* C5: after an update that rebuilds the bundle and returns VK_SUCCESS, if *)
(* a descriptor pool is configured exactly N UI descriptor sets exist and  *)
(* set i is written with UI view i, the configured sampler and the         *)
(* shader-read layout; without a pool no descriptor set exists and no      *)
(* descriptor-set layout is created.                                       *)
(***************************************************************************)
C5_UiDescriptorSets ==
    RebuiltOk =>
      IF m_info.descriptorPool # VK_NULL_HANDLE
      THEN /\ Len(m_res.uiDescriptorSets) = NumColor
           /\ Len(m_res.uiImageViews) = NumColor
           /\ \A i \in 1..NumColor :
                /\ m_res.uiDescriptorSets[i] # VK_NULL_HANDLE
                /\ m_res.uiDescriptorSets[i] \in live
                /\ m_res.uiImageViews[i] # VK_NULL_HANDLE
           /\ Cardinality(Range(m_res.uiDescriptorSets)) = NumColor
           /\ Cardinality(CallIndexes({"vkUpdateDescriptorSets"})) = 1
           /\ \A j \in CallIndexes({"vkUpdateDescriptorSets"}) :
                /\ Len(calls[j].writes) = NumColor
                /\ \A i \in 1..NumColor :
                     /\ calls[j].writes[i].dstSet = m_res.uiDescriptorSets[i]
                     /\ calls[j].writes[i].imageView = m_res.uiImageViews[i]
                     /\ calls[j].writes[i].sampler = m_info.imageSampler
                     /\ calls[j].writes[i].imageLayout = "SHADER_READ_ONLY_OPTIMAL"
      ELSE /\ m_res.uiDescriptorSets = <<>>
           /\ m_descLayout = VK_NULL_HANDLE
           /\ CallIndexes({"vkCreateDescriptorSetLayout", "vkAllocateDescriptorSets",
                           "vkUpdateDescriptorSets"}) = {}
           /\ \A h \in live : h[2] \notin {"descLayout", "descSet"}

\* A rebuild with a pool and two color formats
C5_Witness ==
    /\ RebuiltOk
    /\ m_info.descriptorPool # VK_NULL_HANDLE
    /\ NumColor = 2
    /\ Len(m_res.uiDescriptorSets) = 2

(***************************************************************************)
(* C6: every rebuild in which every image and view creation succeeds       *)
(* records into cmd exactly: one batched barrier taking every image of the *)
(* bundle (all color, all MSAA, depth if present) from undefined to        *)
(* copy-destination layout, then one clear per image in copy-destination   *)
(* layout, then one batched barrier taking every image out of              *)
(* copy-destination layout; each image once in each phase.                 *)
(***************************************************************************)
CmdCalls == SelectSeq(calls, LAMBDA e : e.op \in CmdOps)

ColorImages == {m_res.gBufferColor[i].image : i \in 1..Len(m_res.gBufferColor)}
MsaaImages == {m_res.gBufferColorMSAA[i].image : i \in 1..Len(m_res.gBufferColorMSAA)}
DepthImages == IF m_res.gBufferDepth.image # VK_NULL_HANDLE
               THEN {m_res.gBufferDepth.image} ELSE {}
BundleImages == ColorImages \cup MsaaImages \cup DepthImages

\* The number of images the configuration asks for
ConfiguredImages ==
    NumColor * (IF m_info.sampleCount > VK_SAMPLE_COUNT_1_BIT THEN 2 ELSE 1)
    + (IF m_info.depthFormat # VK_FORMAT_UNDEFINED THEN 1 ELSE 0)

BarrierImages(b) == {b.barriers[i].image : i \in 1..Len(b.barriers)}

ThreePhases ==
    LET cmd == CmdCalls
        n == ConfiguredImages
    IN /\ Cardinality(BundleImages) = n
       /\ VK_NULL_HANDLE \notin BundleImages
       /\ Len(cmd) = n + 2
       \* phase A
       /\ cmd[1].op = "vkCmdPipelineBarrier2"
       /\ Len(cmd[1].barriers) = n
       /\ BarrierImages(cmd[1]) = BundleImages
       /\ \A i \in 1..n : /\ cmd[1].barriers[i].oldLayout = "UNDEFINED"
                          /\ cmd[1].barriers[i].newLayout = "TRANSFER_DST_OPTIMAL"
       \* phase B
       /\ \A j \in 2..(n + 1) :
            /\ cmd[j].op = IF cmd[j].image \in DepthImages
                           THEN "vkCmdClearDepthStencilImage" ELSE "vkCmdClearColorImage"
            /\ cmd[j].imageLayout = "TRANSFER_DST_OPTIMAL"
       /\ {cmd[j].image : j \in 2..(n + 1)} = BundleImages
       \* phase C
       /\ cmd[n + 2].op = "vkCmdPipelineBarrier2"
       /\ Len(cmd[n + 2].barriers) = n
       /\ BarrierImages(cmd[n + 2]) = BundleImages
       /\ \A i \in 1..n :
            /\ cmd[n + 2].barriers[i].oldLayout = "TRANSFER_DST_OPTIMAL"
            /\ cmd[n + 2].barriers[i].newLayout \notin {"TRANSFER_DST_OPTIMAL", "UNDEFINED"}

\* The rebuild reached the clears: no image or view creation failed
ImagesCreated == \A j \in CallIndexes(ImageCreateOps) : calls[j].result = VK_SUCCESS

C6_ThreePhases == (Rebuilt /\ ImagesCreated) => ThreePhases

\* The claim as first stated: every rebuild records the three phases
C6_EveryRebuild == Rebuilt => ThreePhases

\* A rebuild with two color formats, MSAA and depth
C6_Witness ==
    /\ Rebuilt
    /\ ImagesCreated
    /\ NumColor = 2
    /\ Cardinality(MsaaImages) = 2
    /\ DepthImages # {}
    /\ Len(CmdCalls) = 7

(***************************************************************************)
(* C7: after a rebuild that returns VK_SUCCESS the last layout recorded    *)
(* for every image of the bundle is shader-read for a color image,         *)
(* color-attachment for an MSAA image, depth-stencil-attachment for the    *)
(* depth image, never undefined, and the layout stored in the image's      *)
(* descriptor record is the one of its last recorded transition.           *)
(***************************************************************************)
\* The barrier calls that name img, and the layout its last one leaves it in
TransitionsOf(img) ==
    {j \in CallIndexes({"vkCmdPipelineBarrier2"}) : img \in BarrierImages(calls[j])}

LastLayout(img) ==
    LET j == CHOOSE x \in TransitionsOf(img) : \A y \in TransitionsOf(img) : y <= x
        I == {i \in 1..Len(calls[j].barriers) : calls[j].barriers[i].image = img}
        i == CHOOSE x \in I : \A y \in I : y <= x
    IN calls[j].barriers[i].newLayout

ReadyFor(image, layout) ==
    /\ TransitionsOf(image.image) # {}
    /\ LastLayout(image.image) = layout
    /\ image.descriptor.imageLayout = LastLayout(image.image)

C7_FinalLayouts ==
    RebuiltOk =>
      /\ Len(m_res.gBufferColor) = NumColor
      /\ \A i \in 1..Len(m_res.gBufferColor) :
           ReadyFor(m_res.gBufferColor[i], "SHADER_READ_ONLY_OPTIMAL")
      /\ \A i \in 1..Len(m_res.gBufferColorMSAA) :
           ReadyFor(m_res.gBufferColorMSAA[i], "COLOR_ATTACHMENT_OPTIMAL")
      /\ m_res.gBufferDepth.image # VK_NULL_HANDLE =>
           ReadyFor(m_res.gBufferDepth, "DEPTH_STENCIL_ATTACHMENT_OPTIMAL")

\* A successful rebuild with color, MSAA and depth images
C7_Witness ==
    /\ RebuiltOk
    /\ ColorImages # {}
    /\ MsaaImages # {}
    /\ DepthImages # {}

(***************************************************************************)
(* C8: in every update that does not take the no-op path and returns, the  *)
(* wait for the device is the first call, before every destruction of the  *)
(* previous bundle, and every destruction comes before every creation and  *)
(* before every command recorded into cmd.                                 *)
(***************************************************************************)
IndexesIn(cs, ops) == {j \in 1..Len(cs) : cs[j].op \in ops}

TeardownOrder(cs) ==
    /\ IndexesIn(cs, {"vkDeviceWaitIdle"}) = {1}
    /\ \A d \in IndexesIn(cs, DestroyOps) :
         \A c \in IndexesIn(cs, CreateOps \cup CmdOps \cup {"vkUpdateDescriptorSets"}) : d < c

C8_WaitThenTeardownThenBuild ==
    [][(/\ fault = "none"
        /\ lastCall'.op = "update"
        /\ fault' = "none"
        /\ ~(/\ lastCall'.newSize = m_size
             /\ lastCall'.newSampleCount = m_info.sampleCount))
       => TeardownOrder(calls')]_vars

\* A rebuild that destroyed a bundle and built one
C8_Witness ==
    /\ Rebuilt
    /\ CallIndexes(DestroyOps) # {}
    /\ CallIndexes(CreateOps) # {}
    /\ CallIndexes(CmdOps) # {}

(***************************************************************************)
(* C9: when a sub-operation of a rebuild fails, update returns the result  *)
(* of the first failing one and performs nothing after it; when it is an   *)
(* image or view creation, no barrier and no clear is recorded.            *)
(***************************************************************************)
FailedCalls == {j \in CallIndexes(CreateOps) : calls[j].result # VK_SUCCESS}

C9_FirstFailureReturned ==
    Rebuilt =>
      IF FailedCalls = {}
      THEN result = VK_SUCCESS
      ELSE LET j == CHOOSE x \in FailedCalls : \A y \in FailedCalls : x <= y
           IN /\ result = calls[j].result
              /\ j = Len(calls)
              /\ calls[j].op \in ImageCreateOps => CallIndexes(CmdOps) = {}

\* The MSAA image of the second color format fails to be created
C9_Witness ==
    /\ Rebuilt
    /\ result # VK_SUCCESS
    /\ calls[Len(calls)].op = "createImage"
    /\ calls[Len(calls)].target = "msaa"
    /\ calls[Len(calls)].index = 2
    /\ calls[Len(calls)].result = result

(***************************************************************************)
(* C10: after an update has returned a failure no later update returns     *)
(* VK_SUCCESS unless deinit was called or a rebuild ran with every         *)
(* sub-operation succeeding.  (Between the failure and the next update no  *)
(* other operation can run but deinit, so the property is stated on the    *)
(* update that follows a failed one.)                                      *)
(***************************************************************************)
FullRebuild(cs) ==
    /\ cs # <<>>
    /\ cs[1].op = "vkDeviceWaitIdle"
    /\ \A j \in IndexesIn(cs, CreateOps) : cs[j].result = VK_SUCCESS

C10_NoSuccessAfterFailure ==
    [][(/\ UpdateReturned
        /\ result # VK_SUCCESS
        /\ lastCall'.op = "update"
        /\ fault' = "none"
        /\ result' = VK_SUCCESS)
       => FullRebuild(calls')]_vars

(***************************************************************************)
(* C11: for any sizes A and B and any configuration, init, update(A),     *)
(* update(B), deinit leaves the instance as a newly constructed one that   *)
(* was never initialized: no formats and a null allocator in the           *)
(* configuration, size zero, the color, MSAA, UI-view and descriptor-set   *)
(* containers empty, the depth image null, the descriptor-set layout null. *)
(* Stated for every deinit, whatever came before it.                       *)
(***************************************************************************)
AsConstructed ==
    /\ m_info.colorFormats = <<>>
    /\ m_info.allocator = VK_NULL_HANDLE
    /\ m_info.depthFormat = VK_FORMAT_UNDEFINED
    /\ m_info.sampleCount = VK_SAMPLE_COUNT_1_BIT
    /\ m_info.imageSampler = VK_NULL_HANDLE
    /\ m_info.descriptorPool = VK_NULL_HANDLE
    /\ m_size.width = 0
    /\ m_size.height = 0
    /\ m_res.gBufferColor = <<>>
    /\ m_res.gBufferColorMSAA = <<>>
    /\ m_res.uiImageViews = <<>>
    /\ m_res.uiDescriptorSets = <<>>
    /\ m_res.gBufferDepth.image = VK_NULL_HANDLE
    /\ m_res.gBufferDepth.descriptor.imageView = VK_NULL_HANDLE
    /\ m_descLayout = VK_NULL_HANDLE

C11_RoundTrip == lastCall.op = "deinit" => AsConstructed

\* A deinit that tore down the bundle of a second rebuild
C11_Witness ==
    /\ lastCall.op = "deinit"
    /\ AsConstructed
    /\ \E j \in CallIndexes({"destroyImage"}) :
          /\ calls[j].image[1] = 2
          /\ calls[j].image[2] = "colorImage"

(***************************************************************************)
(* C12: on an initialized instance, from the first update that rebuilds    *)
(* the bundle until deinit, the color container of the bundle has as many  *)
(* entries as there are configured color formats (after a rebuild that     *)
(* failed, entries may hold null images); before that first rebuild the    *)
(* bundle is empty.  No update changes the configured color formats or     *)
(* depth format, nor the allocator, the sampler or the pool: an update     *)
(* changes only the size and the sample count.                             *)
(***************************************************************************)
CountIsN == Len(m_res.gBufferColor) = Len(m_info.colorFormats)

C12_CountAndFormats ==
    [][/\ lastCall'.op = "update" =>
            /\ m_info'.colorFormats = m_info.colorFormats
            /\ m_info'.depthFormat = m_info.depthFormat
            /\ m_info'.allocator = m_info.allocator
            /\ m_info'.imageSampler = m_info.imageSampler
            /\ m_info'.descriptorPool = m_info.descriptorPool
       /\ (Initialized /\ lastCall'.op = "update" /\ fault' = "none" /\ calls' # <<>>)
            => CountIsN'
       /\ (Initialized /\ CountIsN /\ lastCall'.op = "update") => CountIsN'
       /\ (lastCall'.op = "init" /\ fault' = "none") => m_res'.gBufferColor = <<>>]_vars

\* The claim as first stated: in every state of an initialized instance
C12_EveryState == Initialized => CountIsN

\* A multisampled rebuild of two color formats that failed and left two
\* entries
C12_Witness ==
    /\ Initialized
    /\ Rebuilt
    /\ result # VK_SUCCESS
    /\ NumColor = 2
    /\ Len(m_res.gBufferColor) = 2
    /\ m_info.sampleCount > VK_SAMPLE_COUNT_1_BIT

(***************************************************************************)
(* C13: init called on an instance whose previous configuration is still   *)
(* active (init was called and deinit has not been called since) trips the *)
(* assertion, for every stored configuration; init on a newly constructed  *)
(* or deinited instance stores a configuration and creates, destroys and   *)
(* records nothing.  Stated on the init that directly follows an init, a   *)
(* construction or a deinit.                                               *)
(***************************************************************************)
C13_InitPrecondition ==
    [][(fault = "none" /\ lastCall'.op = "init") =>
         /\ lastCall.op = "init" => fault' = "assert"
         /\ lastCall.op \in {"GBuffer", "deinit"} =>
              /\ fault' = "none"
              /\ m_info' \in AnyCreateInfos \cup CreateInfos
              /\ calls' = <<>>
              /\ UNCHANGED <<m_size, m_res, m_descLayout, live>>]_vars

(***************************************************************************)
(* C14: the move constructor, and the move assignment to a destination     *)
(* that passes the assertion, give the destination the bundle, the size,   *)
(* the configuration and the descriptor-set layout of the source in one    *)
(* step and leave the moved-from instance unconfigured: empty              *)
(* configuration, zero size, empty bundle, so that its destructor and init *)
(* on it trip no assertion.                                                *)
(***************************************************************************)
Unconfigured(instance) ==
    /\ instance.info = EmptyInfo
    /\ instance.size = Extent(0, 0)
    /\ instance.res = EmptyResources
    /\ instance.descLayout = VK_NULL_HANDLE

SameMembers(a, b) ==
    /\ a.info = b.info
    /\ a.size = b.size
    /\ a.res = b.res
    /\ a.descLayout = b.descLayout

Moved(source, destination, movedFrom) ==
    /\ SameMembers(destination, source)
    /\ Unconfigured(movedFrom)
    /\ Deinited(movedFrom)
    /\ movedFrom.info.colorFormats = <<>>

C14_MoveLeavesSourceUnconfigured ==
    [][(fault = "none" /\ fault' = "none") =>
         /\ lastCall'.op = "GBuffer(GBuffer&&)" => Moved(This, This', other')
         /\ (lastCall'.op = "operator=" /\ lastCall'.to # lastCall'.from) =>
              IF lastCall'.to = "this"
              THEN Moved(other, This', other')
              ELSE Moved(This, other', This')]_vars

(***************************************************************************)
(* C15: getAspectRatio returns the width divided by the height of the      *)
(* current size (in single precision: the float nearest to the quotient)   *)
(* whenever the height is greater than 0, and exactly 1.0 whenever the     *)
(* height is 0, before the first update and after deinit included, for     *)
(* every width.                                                            *)
(***************************************************************************)
\* f is the float nearest to w / h
NearestFloat(f, w, h) ==
    /\ f.kind = "finite"
    /\ IF w = 0 THEN f.m = 0
       ELSE /\ f.m >= Pow2(FloatSignificandBits - 1)
            /\ f.m < Pow2(FloatSignificandBits)
            /\ 2 * (f.m * h - w * Pow2(f.e)) <= h
            /\ 2 * (w * Pow2(f.e) - f.m * h) <= h

ImagesDestroyedBy(cs) == {cs[j].image : j \in IndexesIn(cs, {"destroyImage"})}
ViewsDestroyedBy(cs) == {cs[j].view : j \in IndexesIn(cs, {"vkDestroyImageView"})}

C16_Teardown ==
    LET before == Working(0)
        after == deinitResources(before)
    IN IF m_info.allocator = VK_NULL_HANDLE
       THEN after = before
       ELSE /\ \A i \in 1..Len(m_res.gBufferColor) :
                 m_res.gBufferColor[i].image \in ImagesDestroyedBy(after.calls)
            /\ \A i \in 1..Len(m_res.gBufferColorMSAA) :
                 m_res.gBufferColorMSAA[i].image \in ImagesDestroyedBy(after.calls)
            /\ m_res.gBufferDepth.image # VK_NULL_HANDLE =>
                 m_res.gBufferDepth.image \in ImagesDestroyedBy(after.calls)
            /\ \A i \in 1..Len(m_res.uiImageViews) :
                 m_res.uiImageViews[i] \in ViewsDestroyedBy(after.calls)
            /\ (m_info.descriptorPool # VK_NULL_HANDLE /\ m_res.uiDescriptorSets # <<>>) =>
                 /\ \E j \in IndexesIn(after.calls, {"vkFreeDescriptorSets"}) :
                       after.calls[j].sets = m_res.uiDescriptorSets
                 /\ \E j \in IndexesIn(after.calls, {"vkDestroyDescriptorSetLayout"}) :
                       after.calls[j].layout = m_descLayout
            /\ after.res.gBufferColor = <<>>
            /\ after.res.gBufferColorMSAA = <<>>
            /\ after.res.uiImageViews = <<>>
            /\ after.res.uiDescriptorSets = <<>>
            /\ after.res.gBufferDepth.image = VK_NULL_HANDLE
            /\ after.descLayout = VK_NULL_HANDLE

(***************************************************************************)
(* C17: deinit is idempotent: a deinit that directly follows a deinit, and *)
(* a deinit on a newly constructed instance, issue no destroy or free call *)
(* and leave the instance in the empty state it was in.                    *)
(***************************************************************************)
C17_DeinitIdempotent ==
    [][(/\ fault = "none"
        /\ lastCall.op \in {"deinit", "GBuffer"}
        /\ lastCall'.op = "deinit")
       => (/\ IndexesIn(calls', DestroyOps) = {}
           /\ live' = live
           /\ fault' = "none"
           /\ UNCHANGED <<m_info, m_size, m_res, m_descLayout>>
           /\ AsConstructed')]_vars

\* A deinit that found nothing to tear down on an instance that had built
\* two bundles
C17_Witness ==
    /\ lastCall.op = "deinit"
    /\ calls = <<>>
    /\ gen = 2
    /\ AsConstructed
    /\ live = {}

(***************************************************************************)
(* C18: over any sequence of init, update (succeeding or failing at any    *)
(* sub-operation), move and deinit calls that ends with deinit, every      *)
(* image, image view, descriptor-set layout and descriptor set that was    *)
(* created is destroyed or freed exactly once: none is live after the last *)
(* deinit, none is destroyed twice, and no handle is destroyed or freed    *)
(* that was never created.  Stated for the handles that are not null: the  *)
(* handles a step destroys were live before it, each is destroyed once in  *)
(* the step, and nothing is live after a deinit when no other instance     *)
(* holds a bundle.                                                         *)
(***************************************************************************)
\* The handles that destroy or free call e names
HandlesOf(e) ==
    IF e.op = "destroyImage" THEN <<e.image, e.imageView>>
    ELSE IF e.op = "vkDestroyImageView" THEN <<e.view>>
    ELSE IF e.op = "vkFreeDescriptorSets" THEN e.sets
    ELSE IF e.op = "vkDestroyDescriptorSetLayout" THEN <<e.layout>>
    ELSE <<>>

\* The handles that the calls cs destroy or free, in the order of the calls
RECURSIVE Destroyed(_)
Destroyed(cs) == IF cs = <<>> THEN <<>> ELSE HandlesOf(Head(cs)) \o Destroyed(Tail(cs))

NonNull(hs) == SelectSeq(hs, LAMBDA h : h # VK_NULL_HANDLE)

HoldsNothing(instance) ==
    /\ instance.res = EmptyResources
    /\ instance.descLayout = VK_NULL_HANDLE

C18_ExactlyOnce ==
    [][LET hs == NonNull(Destroyed(calls'))
       IN /\ Range(hs) \subseteq live
          /\ Cardinality(Range(hs)) = Len(hs)
          /\ (lastCall'.op = "deinit" /\ HoldsNothing(other')) => live' = {}]_vars

(***************************************************************************)
(* C19: in every rebuild the component swizzle that forces alpha to one is *)
(* applied to the UI views only: for every color index the primary color   *)
(* view and, when multisampling is enabled, the MSAA shadow view are       *)
(* created with the identity component mapping, and the UI view is created *)
(* over the image of the primary view with alpha swizzled to one.          *)
(***************************************************************************)
C19_SwizzleOnlyOnUiViews ==
    Rebuilt =>
      \A j \in 1..Len(calls) :
         /\ calls[j].op = "createImage" => calls[j].viewInfo.a = "IDENTITY"
         /\ calls[j].op = "vkCreateImageView" =>
              /\ calls[j].viewInfo.a = "ONE"
              /\ \E i \in 1..(j - 1) :
                    /\ calls[i].op = "createImage"
                    /\ calls[i].target = "color"
                    /\ calls[i].index = calls[j].index
                    /\ calls[i].image.image = calls[j].viewInfo.image

====
